---- MODULE Spec2Model ----
(***************************************************************************)
(* Model of the faxter_server resource of terraform-provider-faxter:       *)
(* resourceServerCreate (the create request followed by the poll loop      *)
(* that waits for the server to become "online"), getServerStatus and the  *)
(* resource map of Provider(); and of the create, read, update and delete  *)
(* handlers of the eight resource types (LifecycleSpec).                   *)
(*                                                                         *)
(* Time is counted in ticks of five seconds: pollInterval (10 s) is 2      *)
(* ticks and the five-minute pollTimeout is 60 ticks.                      *)
(***************************************************************************)
EXTENDS Integers, Sequences, FiniteSets, TLC

(* ------------------------------ bounds --------------------------------- *)
\* longest extra time, in ticks, an HTTP round trip may take
MaxFetchDelay == 1
\* longest time, in ticks, time.Sleep may overshoot the interval
MaxOversleep == 1
\* longest ip_addresses list a status response carries
MaxAddrs == 2
\* largest total lag, in ticks, of the clock behind the ideal schedule
\* startedAt + sleeps * pollInterval that is explored
MaxLag == 1
\* shortest deadlines of the reconciler contract that are explored besides
\* the five minutes of the source, in ticks: 1 .. MaxShortTimeout
MaxShortTimeout == 4
\* iterations explored beyond the pollTimeout / pollInterval + 1 that the
\* deadline allows the loop
MaxOverrun == 2

(* --------------------------- program constants ------------------------- *)
pollInterval == 2
FiveMinutes == 60

\* the name attribute of the configuration (d.Get("name"))
name == "web"
\* names the backend may return in the create response
BackendNames == {"web", "web-1"}
Addrs == {"10.0.0.5", "10.0.0.6"}
\* status strings of the backend: the two terminal ones and pending ones
Statuses == {"online", "error", "provisioning", "Online", "ERROR", "online ", ""}
PollTimeouts == (1..MaxShortTimeout) \cup {FiveMinutes}

(* ------------------------------- values -------------------------------- *)
\* a Go error value: nil is NoErr
Err(msg, arg) == [msg |-> msg, arg |-> arg]
NoErr == Err("", "")

\* a Go []string: the nil slice and the empty slice are different values
Slice(s) == [isNil |-> FALSE, elems |-> s]
NilSlice == [isNil |-> TRUE, elems |-> <<>>]

\* one diagnostic: diag.Errorf(summary-format, arg / cause) or diag.FromErr
Diag(summary, arg, cause) == [summary |-> summary, arg |-> arg, cause |-> cause]
\* the empty diag.Diagnostics (var diags diag.Diagnostics)
NoDiags == Diag("", "", NoErr)
FromErr(e) == Diag(e.msg, e.arg, NoErr)

StatusText(code) ==
  CASE code = 200 -> "200 OK"
    [] code = 404 -> "404 Not Found"
    [] code = 500 -> "500 Internal Server Error"
    [] OTHER -> "0"

SeqsUpTo(S, n) == UNION {[1..k -> S] : k \in 0..n}

(* ------------------------- backend responses --------------------------- *)
\* what c.httpClient.Do returns: a transport failure or a response with a
\* status code and a body that decodes or not
Body(st, ips) == [status |-> st, ips |-> ips, rf |-> FALSE, names |-> <<>>]
NoBody == Body("", NilSlice)
Resp(fail, code, ok, body) == [fail |-> fail, code |-> code, decodable |-> ok, body |-> body]
NoResp == Resp("", 0, FALSE, NoBody)

IpLists == {NilSlice} \cup {Slice(s) : s \in SeqsUpTo(Addrs, MaxAddrs)}
\* a server that is not online is reported without addresses or with one
IpListsOf(st) == IF st = "online" THEN IpLists ELSE {NilSlice, Slice(<<"10.0.0.5">>)}

\* the request of getServerStatus carries ctx (req.WithContext(ctx)): once
\* ctx is cancelled the round trip may fail with the context's error
TransportFailures(cerr) == {"connection refused"} \cup (IF cerr = "" THEN {} ELSE {cerr})

StatusResponses(cerr) ==
       {Resp(f, 0, FALSE, NoBody) : f \in TransportFailures(cerr)}
  \cup {Resp("", c, FALSE, NoBody) : c \in {404, 500}}
  \cup {Resp("", 200, FALSE, NoBody)}
  \cup UNION {{Resp("", 200, TRUE, Body(st, ips)) : ips \in IpListsOf(st)} : st \in Statuses}

CreateBody(ns) == [status |-> "", ips |-> NilSlice, rf |-> FALSE, names |-> ns]
CreateResponses ==
       {Resp("connection refused", 0, FALSE, NoBody)}
  \cup {Resp("", 500, FALSE, NoBody), Resp("", 200, FALSE, NoBody)}
  \cup {Resp("", 200, TRUE, CreateBody(ns)) : ns \in SeqsUpTo(BackendNames, 1)}

(* --------------------------- configurations ---------------------------- *)
\* the configurable attributes of a resource: the name, which every type
\* has, and the optional fields of a server
Config(n, fl, im, rf, nets, subs, vols, sgs) ==
  [name |-> n, flavor |-> fl, image |-> im, request_floating_ip |-> rf,
   networks |-> nets, sub_networks |-> subs, volumes |-> vols, security_groups |-> sgs]

\* the defaults of the schema of resourceServer
DefaultConfig ==
  Config(name, "copper", "Ubuntu2204", FALSE, <<"public1">>, <<>>, <<>>, <<"default">>)

\* a lifecycle request: method, the name in its path and its JSON body
Req(method, key, body) == [method |-> method, key |-> key, body |-> body]
NoReq == Req("", "", <<>>)

(* ------------------------------- state --------------------------------- *)
VARIABLES
  pc,              \* position of resourceServerCreate
  now,             \* the wall clock (time.Now())
  ctxErr,          \* ctx.Err(): "" while the context is live
  pollTimeout,     \* the total deadline duration of this invocation
  deadline,        \* deadline := time.Now().Add(pollTimeout)
  id,              \* d.Id()
  status,          \* the persisted attribute "status"
  ip_addresses,    \* the persisted attribute "ip_addresses"
  diags,           \* what resourceServerCreate returned
  resp,            \* the response of the status request of the iteration
                   \* that returned (the locals of an iteration die with it)
  fetches,         \* number of getServerStatus calls of the loop
  sleeps,          \* number of time.Sleep calls of the loop
  pendings,        \* number of fetches after which the loop went on polling
  startedAt,       \* the clock when the loop started
  cancelledInFlight, \* ctx was cancelled while a status request was in flight
  fetchErrors,     \* number of getServerStatus calls that returned an error
  fetchKey,        \* the name the last getServerStatus call was given
  createdName,     \* resourceResps[0].Name of the create response
  createResp,      \* the response of the create request of the server
  kind,            \* the resource type the operations are serving
  op,              \* the lifecycle operation invoked last
  attrs,           \* the persisted configuration attributes (d.Get / d.Set)
  req,             \* the request of the read, update or delete invoked last
  cfg              \* the configuration the operation invoked last was given

vars == <<pc, now, ctxErr, pollTimeout, deadline, id, status, ip_addresses, diags,
          resp, fetches, sleeps, pendings, startedAt, cancelledInFlight,
          fetchErrors, fetchKey, createdName, createResp, kind, op, attrs, req, cfg>>

\* what the steps of resourceServerCreate leave alone
lifeVars == <<kind, op, attrs, req, cfg>>

\* cap on the iterations of the loop, never reached by the loop of the source
MaxIterations == pollTimeout \div pollInterval + 1 + MaxOverrun

\* the clock may run behind the ideal schedule by MaxLag at most
Lag(t, n) == t - (startedAt + n * pollInterval)

(* --------------------------- getServerStatus --------------------------- *)
Fetched(st, ips, rf, e) == [status |-> st, ips |-> ips, rf |-> rf, err |-> e]

NotFoundErr(n) == Err("server not found", n)

\* getServerStatus without its 404 branch
getServerStatus_No404(r, n) ==
  IF r.fail # "" THEN Fetched("", NilSlice, TRUE, Err(r.fail, ""))
  ELSE IF r.code # 200
    THEN Fetched("", NilSlice, TRUE, Err("failed to get server status", StatusText(r.code)))
  ELSE IF ~r.decodable
    THEN Fetched("", NilSlice, TRUE, Err("error decoding read response", ""))
  ELSE Fetched(r.body.status, r.body.ips, r.body.rf, NoErr)

getServerStatus(r, n) ==
  IF r.fail # "" THEN Fetched("", NilSlice, TRUE, Err(r.fail, ""))
  ELSE IF r.code = 404 THEN Fetched("", NilSlice, TRUE, NotFoundErr(n))
  ELSE IF r.code # 200
    THEN Fetched("", NilSlice, TRUE, Err("failed to get server status", StatusText(r.code)))
  ELSE IF ~r.decodable
    THEN Fetched("", NilSlice, TRUE, Err("error decoding read response", ""))
  ELSE Fetched(r.body.status, r.body.ips, r.body.rf, NoErr)

(* ------------------------- the body of the loop ------------------------ *)
\* a deadline test that never fires
After_Never(t, u) == FALSE

\* a deadline test that already fires at the deadline
After_OrEqual(t, u) == t >= u

\* a deadline test that allows one more interval
After_Late(t, u) == t > u + pollInterval

\* time.Time.After
After(t, u) == t > u

\* d.Set("ip_addresses", []string): the list written to state; a nil slice
\* is stored as the empty list
Reverse(q) == [i \in 1..Len(q) |-> q[Len(q) + 1 - i]]
\* a store that does not keep the order of the list
SetList_Reversed(sl) == Reverse(sl.elems)

SetList(sl) == sl.elems

Outcome(exit, dg, setStatus, setIps) ==
  [exit |-> exit, diags |-> dg, setStatus |-> setStatus, setIps |-> setIps]

TimedOut == Diag("Timed out waiting for server to become online", name, NoErr)
InErrorState == Diag("Server is in an error state", name, NoErr)
FetchFailed(e) == Diag("Error fetching server status", "", e)

\* the deadline check placed before the classification of the status
PollOutcome_DeadlineFirst(f, t, dl) ==
  IF f.err # NoErr THEN Outcome(TRUE, FetchFailed(f.err), FALSE, FALSE)
  ELSE IF After(t, dl) THEN Outcome(TRUE, TimedOut, TRUE, FALSE)
  ELSE IF f.status = "online" THEN Outcome(TRUE, NoDiags, TRUE, TRUE)
  ELSE IF f.status = "error" THEN Outcome(TRUE, InErrorState, TRUE, FALSE)
  ELSE Outcome(FALSE, NoDiags, TRUE, FALSE)

\* the status "error" not recognised: the loop polls on
PollOutcome_ErrorContinues(f, t, dl) ==
  IF f.err # NoErr THEN Outcome(TRUE, FetchFailed(f.err), FALSE, FALSE)
  ELSE IF f.status = "online" THEN Outcome(TRUE, NoDiags, TRUE, TRUE)
  ELSE IF After(t, dl) THEN Outcome(TRUE, TimedOut, TRUE, FALSE)
  ELSE Outcome(FALSE, NoDiags, TRUE, FALSE)

\* every status other than "error" taken for ready
PollOutcome_AnyReady(f, t, dl) ==
  IF f.err # NoErr THEN Outcome(TRUE, FetchFailed(f.err), FALSE, FALSE)
  ELSE IF f.status # "error" THEN Outcome(TRUE, NoDiags, TRUE, TRUE)
  ELSE Outcome(TRUE, InErrorState, TRUE, FALSE)

\* a status string in lower case and without surrounding blanks
Fold(st) ==
  CASE st = "Online" -> "online"
    [] st = "online " -> "online"
    [] st = "ERROR" -> "error"
    [] OTHER -> st

\* the status matched without regard to case and blanks
PollOutcome_FoldedMatch(f, t, dl) ==
  IF f.err # NoErr THEN Outcome(TRUE, FetchFailed(f.err), FALSE, FALSE)
  ELSE IF Fold(f.status) = "online" THEN Outcome(TRUE, NoDiags, TRUE, TRUE)
  ELSE IF Fold(f.status) = "error" THEN Outcome(TRUE, InErrorState, TRUE, FALSE)
  ELSE IF After(t, dl) THEN Outcome(TRUE, TimedOut, TRUE, FALSE)
  ELSE Outcome(FALSE, NoDiags, TRUE, FALSE)

\* a failed fetch other than not-found tried again until the deadline
PollOutcome_RetryOnError(f, t, dl) ==
  IF f.err # NoErr /\ f.err.msg = "server not found"
    THEN Outcome(TRUE, FetchFailed(f.err), FALSE, FALSE)
  ELSE IF f.err # NoErr /\ After(t, dl) THEN Outcome(TRUE, FetchFailed(f.err), FALSE, FALSE)
  ELSE IF f.err # NoErr THEN Outcome(FALSE, NoDiags, FALSE, FALSE)
  ELSE IF f.status = "online" THEN Outcome(TRUE, NoDiags, TRUE, TRUE)
  ELSE IF f.status = "error" THEN Outcome(TRUE, InErrorState, TRUE, FALSE)
  ELSE IF After(t, dl) THEN Outcome(TRUE, TimedOut, TRUE, FALSE)
  ELSE Outcome(FALSE, NoDiags, TRUE, FALSE)

\* ip_addresses written together with status at every fetch
PollOutcome_IpsAlways(f, t, dl) ==
  IF f.err # NoErr THEN Outcome(TRUE, FetchFailed(f.err), FALSE, FALSE)
  ELSE IF f.status = "online" THEN Outcome(TRUE, NoDiags, TRUE, TRUE)
  ELSE IF f.status = "error" THEN Outcome(TRUE, InErrorState, TRUE, TRUE)
  ELSE IF After(t, dl) THEN Outcome(TRUE, TimedOut, TRUE, TRUE)
  ELSE Outcome(FALSE, NoDiags, TRUE, TRUE)

\* the deadline looked at before the error of the fetch
PollOutcome_DeadlineBeforeErr(f, t, dl) ==
  IF After(t, dl) /\ (f.err # NoErr \/ f.status \notin {"online", "error"})
    THEN Outcome(TRUE, TimedOut, FALSE, FALSE)
  ELSE IF f.err # NoErr THEN Outcome(TRUE, FetchFailed(f.err), FALSE, FALSE)
  ELSE IF f.status = "online" THEN Outcome(TRUE, NoDiags, TRUE, TRUE)
  ELSE IF f.status = "error" THEN Outcome(TRUE, InErrorState, TRUE, FALSE)
  ELSE Outcome(FALSE, NoDiags, TRUE, FALSE)

\* lines 229-254: what one iteration does with the result f of its fetch,
\* the clock t read after the fetch and the deadline dl
PollOutcome(f, t, dl) ==
  IF f.err # NoErr
    THEN Outcome(TRUE, FetchFailed(f.err), FALSE, FALSE)
  ELSE IF f.status = "online" THEN Outcome(TRUE, NoDiags, TRUE, TRUE)
  ELSE IF f.status = "error" THEN Outcome(TRUE, InErrorState, TRUE, FALSE)
  ELSE IF After(t, dl) THEN Outcome(TRUE, TimedOut, TRUE, FALSE)
  ELSE Outcome(FALSE, NoDiags, TRUE, FALSE)

(* ------------------------------- Init ---------------------------------- *)
Init ==
  /\ pc = "post"
  /\ now = 0
  /\ ctxErr = ""
  /\ pollTimeout \in PollTimeouts
  /\ deadline = 0
  /\ id = ""
  /\ status = ""
  /\ ip_addresses = <<>>
  /\ diags = NoDiags
  /\ resp = NoResp
  /\ fetches = 0
  /\ sleeps = 0
  /\ pendings = 0
  /\ startedAt = 0
  /\ cancelledInFlight = FALSE
  /\ fetchErrors = 0
  /\ fetchKey = ""
  /\ createdName = ""
  /\ createResp = NoResp
  /\ kind = "server"
  /\ op = "create"
  /\ attrs = DefaultConfig
  /\ req = NoReq
  /\ cfg = DefaultConfig

(* ------------------------------ actions -------------------------------- *)
\* the caller cancels the context, at any moment of the operation
Cancel ==
  /\ pc \in {"post", "sleep", "check", "fetch"}
  /\ ctxErr = ""
  /\ ctxErr' = "context canceled"
  /\ cancelledInFlight' = (pc = "fetch")
  /\ UNCHANGED <<pc, now, pollTimeout, deadline, id, status, ip_addresses, diags,
                 resp, fetches, sleeps, pendings, startedAt,
                 fetchErrors, fetchKey, createdName, createResp>>
  /\ UNCHANGED lifeVars

\* lines 171-216: POST /servers/, SetId, deadline
CreateFailure(r) ==
  IF r.fail # "" THEN FromErr(Err(r.fail, ""))
  ELSE IF r.code # 200 THEN Diag("Failed to create server", StatusText(r.code), NoErr)
  ELSE IF ~r.decodable THEN FromErr(Err("error decoding create response", ""))
  ELSE IF Len(r.body.names) = 0 THEN Diag("No server returned in create response", "", NoErr)
  ELSE NoDiags

\* the ID set to the configured name before the response is looked at
CreateRequest_IdBeforeResponse ==
  /\ pc = "post"
  /\ \E r \in CreateResponses, dly \in 0..MaxFetchDelay :
       /\ now' = now + dly
       /\ createResp' = r
       /\ IF CreateFailure(r) # NoDiags
            THEN /\ diags' = CreateFailure(r)
                 /\ pc' = "done"
                 /\ id' = name
                 /\ UNCHANGED <<deadline, startedAt, createdName>>
            ELSE /\ id' = r.body.names[1]
                 /\ createdName' = r.body.names[1]
                 /\ startedAt' = now'
                 /\ deadline' = now' + pollTimeout
                 /\ pc' = "sleep"
                 /\ UNCHANGED diags
  /\ UNCHANGED <<ctxErr, pollTimeout, status, ip_addresses, resp, fetches, sleeps,
                 pendings, cancelledInFlight, fetchErrors, fetchKey>>
  /\ UNCHANGED lifeVars

\* lines 180-216: the create request is answered
CreateRequest ==
  /\ pc = "post"
  /\ \E r \in CreateResponses, dly \in 0..MaxFetchDelay :
       /\ now' = now + dly
       /\ createResp' = r
       /\ IF CreateFailure(r) # NoDiags
            THEN /\ diags' = CreateFailure(r)
                 /\ pc' = "done"
                 /\ UNCHANGED <<id, deadline, startedAt, createdName>>
            ELSE /\ id' = r.body.names[1]
                 /\ createdName' = r.body.names[1]
                 /\ startedAt' = now'
                 /\ deadline' = now' + pollTimeout
                 /\ pc' = "sleep"
                 /\ UNCHANGED diags
  /\ UNCHANGED <<ctxErr, pollTimeout, status, ip_addresses, resp, fetches, sleeps,
                 pendings, cancelledInFlight, fetchErrors, fetchKey>>
  /\ UNCHANGED lifeVars

\* the loop without its sleep
Sleep_Skipped ==
  /\ pc = "sleep"
  /\ pc' = "check"
  /\ UNCHANGED <<now, ctxErr, pollTimeout, deadline, id, status, ip_addresses, diags,
                 resp, fetches, sleeps, pendings, startedAt, cancelledInFlight,
                 fetchErrors, fetchKey, createdName, createResp>>
  /\ UNCHANGED lifeVars

\* the deadline computed anew in every iteration
Sleep_ResetsDeadline ==
  /\ pc = "sleep"
  /\ sleeps < MaxIterations
  /\ \E extra \in 0..MaxOversleep :
       /\ Lag(now + pollInterval + extra, sleeps + 1) <= MaxLag
       /\ now' = now + pollInterval + extra
  /\ deadline' = now' + pollTimeout
  /\ sleeps' = sleeps + 1
  /\ pc' = "check"
  /\ UNCHANGED <<ctxErr, pollTimeout, id, status, ip_addresses, diags,
                 resp, fetches, pendings, startedAt, cancelledInFlight,
                 fetchErrors, fetchKey, createdName, createResp>>
  /\ UNCHANGED lifeVars

\* line 220: time.Sleep(pollInterval)
Sleep ==
  /\ pc = "sleep"
  /\ sleeps < MaxIterations
  /\ \E extra \in 0..MaxOversleep :
       /\ Lag(now + pollInterval + extra, sleeps + 1) <= MaxLag
       /\ now' = now + pollInterval + extra
  /\ sleeps' = sleeps + 1
  /\ pc' = "check"
  /\ UNCHANGED <<ctxErr, pollTimeout, deadline, id, status, ip_addresses, diags,
                 resp, fetches, pendings, startedAt, cancelledInFlight,
                 fetchErrors, fetchKey, createdName, createResp>>
  /\ UNCHANGED lifeVars

\* the status request issued without looking at the context first
CheckCtx_NoCheck ==
  /\ pc = "check"
  /\ pc' = "fetch"
  /\ fetches' = fetches + 1
  /\ fetchKey' = id
  /\ UNCHANGED <<now, ctxErr, pollTimeout, deadline, id, status, ip_addresses, diags,
                 resp, sleeps, pendings, startedAt, cancelledInFlight,
                 fetchErrors, createdName, createResp>>
  /\ UNCHANGED lifeVars

\* the status request keyed by the configured name instead of the ID
CheckCtx_KeyByConfigName ==
  /\ pc = "check"
  /\ IF ctxErr # ""
       THEN /\ diags' = FromErr(Err(ctxErr, ""))
            /\ pc' = "done"
            /\ UNCHANGED <<fetches, fetchKey>>
       ELSE /\ pc' = "fetch"
            /\ fetches' = fetches + 1
            /\ fetchKey' = name
            /\ UNCHANGED diags
  /\ UNCHANGED <<now, ctxErr, pollTimeout, deadline, id, status, ip_addresses,
                 resp, sleeps, pendings, startedAt, cancelledInFlight,
                 fetchErrors, createdName, createResp>>
  /\ UNCHANGED lifeVars

\* the cancellation reported the way a failed fetch is
CheckCtx_CancelAsFetchError ==
  /\ pc = "check"
  /\ IF ctxErr # ""
       THEN /\ diags' = Diag("Error fetching server status", "", Err(ctxErr, ""))
            /\ pc' = "done"
            /\ UNCHANGED <<fetches, fetchKey>>
       ELSE /\ pc' = "fetch"
            /\ fetches' = fetches + 1
            /\ fetchKey' = id
            /\ UNCHANGED diags
  /\ UNCHANGED <<now, ctxErr, pollTimeout, deadline, id, status, ip_addresses,
                 resp, sleeps, pendings, startedAt, cancelledInFlight,
                 fetchErrors, createdName, createResp>>
  /\ UNCHANGED lifeVars

\* lines 223-228: the context check, then the status request is issued
CheckCtx ==
  /\ pc = "check"
  /\ IF ctxErr # ""
       THEN /\ diags' = FromErr(Err(ctxErr, ""))
            /\ pc' = "done"
            /\ UNCHANGED <<fetches, fetchKey>>
       ELSE /\ pc' = "fetch"
            /\ fetches' = fetches + 1
            /\ fetchKey' = id
            /\ UNCHANGED diags
  /\ UNCHANGED <<now, ctxErr, pollTimeout, deadline, id, status, ip_addresses,
                 resp, sleeps, pendings, startedAt, cancelledInFlight,
                 fetchErrors, createdName, createResp>>
  /\ UNCHANGED lifeVars

\* the status request returns and the iteration finishes as Iter says
FetchStep(Iter(_, _, _)) ==
  /\ pc = "fetch"
  /\ \E r \in StatusResponses(ctxErr), dly \in 0..MaxFetchDelay :
       LET f == getServerStatus(r, fetchKey)
           o == Iter(f, now + dly, deadline)
       IN /\ Lag(now + dly, sleeps) <= MaxLag
          /\ now' = now + dly
          /\ resp' = IF o.exit THEN r ELSE NoResp
          /\ status' = IF o.setStatus THEN f.status ELSE status
          /\ ip_addresses' = IF o.setIps THEN SetList(f.ips) ELSE ip_addresses
          /\ diags' = o.diags
          /\ pc' = IF o.exit THEN "done" ELSE "sleep"
          /\ pendings' = IF o.exit THEN pendings ELSE pendings + 1
          /\ fetchErrors' = IF f.err # NoErr THEN fetchErrors + 1 ELSE fetchErrors
  /\ UNCHANGED <<ctxErr, pollTimeout, deadline, id, fetches, sleeps, startedAt,
                 cancelledInFlight, fetchKey, createdName, createResp>>
  /\ UNCHANGED lifeVars

\* the context looked at again once the status request has returned
PollOutcome_CtxAfter(f, t, dl) ==
  IF ctxErr # "" THEN Outcome(TRUE, FromErr(Err(ctxErr, "")), FALSE, FALSE)
  ELSE PollOutcome(f, t, dl)

FetchReturn_CtxAfter == FetchStep(PollOutcome_CtxAfter)

\* lines 228-255
FetchReturn == FetchStep(PollOutcome)

Next == Cancel \/ CreateRequest \/ Sleep \/ CheckCtx \/ FetchReturn

Spec == Init /\ [][Next]_vars

\* every call of the operation returns: the create request, time.Sleep, the
\* context check and the status request; the caller need not ever cancel
FairSpec ==
  /\ Spec
  /\ WF_vars(CreateRequest)
  /\ WF_vars(Sleep)
  /\ WF_vars(CheckCtx)
  /\ WF_vars(FetchReturn)

(* --------------------------- outcome kinds ----------------------------- *)
Returned == pc = "done"
\* the result of the last getServerStatus call of the loop
fetched == getServerStatus(resp, fetchKey)

IsSuccess == Returned /\ diags = NoDiags
IsTimeout == Returned /\ diags.summary = "Timed out waiting for server to become online"
IsCancelled == Returned /\ diags.summary = "context canceled"
IsProvisionFailed == Returned /\ diags.summary = "Server is in an error state"
IsFetchError == Returned /\ diags.summary = "Error fetching server status"
\* the test resourceServerRead applies to the error of getServerStatus
IsNotFound == IsFetchError /\ diags.cause = NotFoundErr(id)

\* line 211 has been passed: the ID is set and the loop entered
LoopStarted == pc \in {"sleep", "check", "fetch"} \/ (pc = "done" /\ sleeps >= 1)

IsTransient == IsFetchError /\ ~IsNotFound
\* how many of the six outcomes of the loop the returned diagnostics are
OutcomeCount ==
  Cardinality({k \in 1..6 :
    CASE k = 1 -> IsSuccess
      [] k = 2 -> IsTimeout
      [] k = 3 -> IsCancelled
      [] k = 4 -> IsNotFound
      [] k = 5 -> IsProvisionFailed
      [] OTHER -> IsTransient})

TypeOK ==
  /\ pc \in {"post", "sleep", "check", "fetch", "done", "new", "idle"}
  /\ now \in Nat /\ fetches \in Nat /\ sleeps \in Nat
  /\ ctxErr \in {"", "context canceled"}

(* ----------------------------- the provider ---------------------------- *)
\* a schema.Resource: the names of its four lifecycle functions
Resource(c, r, u, d) == [CreateContext |-> c, ReadContext |-> r, UpdateContext |-> u, DeleteContext |-> d]

resourceProject == Resource("resourceProjectCreate", "resourceProjectRead", "resourceProjectUpdate", "resourceProjectDelete")
resourceServer == Resource("resourceServerCreate", "resourceServerRead", "resourceServerUpdate", "resourceServerDelete")
resourceSSHKey == Resource("resourceSSHKeyCreate", "resourceSSHKeyRead", "resourceSSHKeyUpdate", "resourceSSHKeyDelete")
resourceNetwork == Resource("resourceNetworkCreate", "resourceNetworkRead", "resourceNetworkUpdate", "resourceNetworkDelete")
resourceRouter == Resource("resourceRouterCreate", "resourceRouterRead", "resourceRouterUpdate", "resourceRouterDelete")
resourceVolume == Resource("resourceVolumeCreate", "resourceVolumeRead", "resourceVolumeUpdate", "resourceVolumeDelete")
resourceSecurityGroup == Resource("resourceSecurityGroupCreate", "resourceSecurityGroupRead", "resourceSecurityGroupUpdate", "resourceSecurityGroupDelete")
\* defined in resource_loadbalancer.go; Provider() does not refer to it
resourceLoadBalancer == Resource("resourceLoadBalancerCreate", "resourceLoadBalancerRead", "resourceLoadBalancerUpdate", "resourceLoadBalancerDelete")

\* Provider().ResourcesMap
ResourcesMap ==
  [k \in {"faxter_project", "faxter_server", "faxter_ssh_key", "faxter_network",
          "faxter_router", "faxter_volume", "faxter_security_group"} |->
     CASE k = "faxter_project" -> resourceProject
       [] k = "faxter_server" -> resourceServer
       [] k = "faxter_ssh_key" -> resourceSSHKey
       [] k = "faxter_network" -> resourceNetwork
       [] k = "faxter_router" -> resourceRouter
       [] k = "faxter_volume" -> resourceVolume
       [] OTHER -> resourceSecurityGroup]

\* the resources of the provider that implement the given resource
RegisteredAs(res) == {k \in DOMAIN ResourcesMap : ResourcesMap[k] = res}

HasAllFour(res) ==
  /\ res.CreateContext # ""
  /\ res.ReadContext # ""
  /\ res.UpdateContext # ""
  /\ res.DeleteContext # ""

(* ---------------------------- the lifecycle ---------------------------- *)
\* the resource types, by the name of their endpoint
Kinds ==
  {"project", "server", "ssh_key", "network", "router", "volume", "security_group",
   "loadbalancer"}

\* names a configuration may give the resource
ConfigNames == {name, "api"}

\* configurations of a server: the defaults, one that changes a string, sets
\* the flag and adds a volume, and one that renames the server and empties
\* lists
ServerConfigs ==
  {DefaultConfig,
   Config(name, "gold", "Ubuntu2204", TRUE, <<"public1">>, <<>>, <<"data">>, <<"default">>),
   Config("api", "copper", "Debian12", FALSE, <<>>, <<"sub1">>, <<>>, <<>>)}

Configs(k) ==
  IF k = "server" THEN ServerConfigs
  ELSE {[DefaultConfig EXCEPT !.name = n] : n \in ConfigNames}

\* answers to the request of a handler other than the status request of a
\* server: a transport failure, 404, 500, a 200 that does not decode and a
\* 200 with a resource object
ObjectBody(n, st) == [status |-> st, ips |-> NilSlice, rf |-> FALSE, names |-> <<n>>]
ObjectResponses ==
       {Resp(f, 0, FALSE, NoBody) : f \in TransportFailures("context canceled")}
  \cup {Resp("", c, FALSE, NoBody) : c \in {404, 500}}
  \cup {Resp("", 200, FALSE, NoBody)}
  \cup {Resp("", 200, TRUE, ObjectBody(n, st)) : n \in BackendNames, st \in {"online", "provisioning"}}

\* answers to the status request of resourceServerRead, whose context may
\* be cancelled or not, with either value of request_floating_ip
ReadStatuses == {"online", "error", "provisioning"}
ServerReadResponses ==
  UNION {IF r.decodable THEN {[r EXCEPT !.body.rf = b] : b \in BOOLEAN} ELSE {r} :
           r \in {q \in StatusResponses("context canceled") :
                     q.decodable => q.body.status \in ReadStatuses}}

ReadResponses(k) == IF k = "server" THEN ServerReadResponses ELSE ObjectResponses

\* the *schema.ResourceData a handler is given
ResourceData == [id |-> id, status |-> status, ip_addresses |-> ip_addresses, attrs |-> attrs]

\* what a handler has done when it returns: the request it sent, the
\* resource data it leaves and the diagnostics it returns
Ret(rq, dd, dg) == [req |-> rq, d |-> dd, diags |-> dg]

NoJson == [t \in {} |-> ""]

\* the checks a handler makes on the answer r to its request rq: on a
\* transport failure and on a status code other than 200 it returns an error
\* and leaves the data dd; on 200 the data is what the handler makes of it
Answered(what, rq, dd, after, r) ==
  IF r.fail # "" THEN Ret(rq, dd, FromErr(Err(r.fail, "")))
  ELSE IF r.code # 200 THEN Ret(rq, dd, Diag(what, StatusText(r.code), NoErr))
  ELSE Ret(rq, after, NoDiags)

\* a read that takes 404 for an error like any other status code
ReadAnswered_GoneIsError(what, rq, dd, after, r) == Answered(what, rq, dd, after, r)

\* the checks of a read: 404 clears the ID and is no error
ReadAnswered(what, rq, dd, after, r) ==
  IF r.fail = "" /\ r.code = 404 THEN Ret(rq, [dd EXCEPT !.id = ""], NoDiags)
  ELSE Answered(what, rq, dd, after, r)

\* json.NewDecoder(resp.Body).Decode failed on a 200 response
Undecodable(r) == r.fail = "" /\ r.code = 200 /\ ~r.decodable
DecodeError == FromErr(Err("error decoding response", ""))

(* create *)
resourceProjectCreate(dd, c, r) ==
  Answered("Failed to create project", Req("POST", "", [name |-> c.name]), dd,
           [dd EXCEPT !.id = c.name], r)

\* create of the types whose ID is the name in the response object
CreateNamed(what, dd, c, r) ==
  LET rq == Req("POST", "", [name |-> c.name])
  IN IF Undecodable(r) THEN Ret(rq, dd, DecodeError)
     ELSE IF r.fail = "" /\ r.code = 200
       THEN Ret(rq, [dd EXCEPT !.id = r.body.names[1]], NoDiags)
     ELSE Answered(what, rq, dd, dd, r)

resourceSSHKeyCreate(dd, c, r) == CreateNamed("Failed to create SSH key", dd, c, r)
resourceNetworkCreate(dd, c, r) == CreateNamed("Failed to create network", dd, c, r)
resourceRouterCreate(dd, c, r) == CreateNamed("Failed to create router", dd, c, r)
resourceVolumeCreate(dd, c, r) == CreateNamed("Failed to create volume", dd, c, r)
resourceSecurityGroupCreate(dd, c, r) == CreateNamed("Failed to create security group", dd, c, r)

resourceLoadBalancerCreate(dd, c, r) ==
  LET rq == Req("POST", "", [name |-> c.name])
  IN IF Undecodable(r) THEN Ret(rq, dd, DecodeError)
     ELSE IF r.fail = "" /\ r.code = 200
       THEN Ret(rq, [dd EXCEPT !.id = r.body.names[1], !.status = r.body.status], NoDiags)
     ELSE Answered("Failed to create load balancer", rq, dd, dd, r)

(* read *)
Get(dd) == Req("GET", dd.id, NoJson)

resourceProjectRead(dd, r) ==
  ReadAnswered("Failed to read project", Get(dd), dd, [dd EXCEPT !.attrs.name = dd.id], r)
resourceSSHKeyRead(dd, r) == ReadAnswered("Failed to read SSH key", Get(dd), dd, dd, r)
resourceNetworkRead(dd, r) == ReadAnswered("Failed to read network", Get(dd), dd, dd, r)
resourceRouterRead(dd, r) == ReadAnswered("Failed to read router", Get(dd), dd, dd, r)
resourceVolumeRead(dd, r) == ReadAnswered("Failed to read volume", Get(dd), dd, dd, r)
resourceSecurityGroupRead(dd, r) ==
  ReadAnswered("Failed to read security group", Get(dd), dd, dd, r)

resourceLoadBalancerRead(dd, r) ==
  IF Undecodable(r) THEN Ret(Get(dd), dd, DecodeError)
  ELSE ReadAnswered("Failed to read load balancer", Get(dd), dd,
                    [dd EXCEPT !.status = r.body.status], r)

\* a read that writes the status before it looks at the error
resourceServerRead_StatusFirst(dd, r) ==
  LET f == getServerStatus(r, dd.id)
      ds == [dd EXCEPT !.status = f.status]
  IN IF f.err # NoErr
       THEN IF f.err = NotFoundErr(dd.id)
              THEN Ret(Get(dd), [ds EXCEPT !.id = ""], NoDiags)
              ELSE Ret(Get(dd), ds, Diag("Error reading server", "", f.err))
       ELSE Ret(Get(dd),
                [ds EXCEPT !.ip_addresses = SetList(f.ips),
                           !.attrs.request_floating_ip = f.rf],
                NoDiags)

\* lines 303-334: the error of getServerStatus is told from not-found by its
\* text, which carries the name the request was made for
resourceServerRead(dd, r) ==
  LET f == getServerStatus(r, dd.id)
  IN IF f.err # NoErr
       THEN IF f.err = NotFoundErr(dd.id)
              THEN Ret(Get(dd), [dd EXCEPT !.id = ""], NoDiags)
              ELSE Ret(Get(dd), dd, Diag("Error reading server", "", f.err))
       ELSE Ret(Get(dd),
                [dd EXCEPT !.status = f.status,
                           !.ip_addresses = SetList(f.ips),
                           !.attrs.request_floating_ip = f.rf],
                NoDiags)

(* update *)
OptionalFields ==
  {"flavor", "image", "request_floating_ip", "networks", "sub_networks", "volumes",
   "security_groups"}
ListFields == {"networks", "sub_networks", "volumes", "security_groups"}

\* the json tag of the field of ServerUpdateRequest that carries attribute f
JsonTag(f) == IF f = "sub_networks" THEN "subnetworks" ELSE f
AttrOfTag(t) == IF t = "subnetworks" THEN "sub_networks" ELSE t

\* expandStringList: the result of a list without elements is the nil slice
expandStringList(list) == IF Len(list) = 0 THEN NilSlice ELSE Slice(list)

\* d.HasChange(f) while the state holds old and the plan is new
HasChange(old, new, f) == old[f] # new[f]

\* the value an attribute of the plan is sent as
Sent(new, f) == IF f \in ListFields THEN expandStringList(new[f]) ELSE new[f]

\* the zero value of the type of an attribute
IsZero(new, f) ==
  IF f \in ListFields THEN Len(new[f]) = 0
  ELSE IF f = "request_floating_ip" THEN new[f] = FALSE
  ELSE new[f] = ""

\* a request whose optional fields are values: omitempty drops a changed
\* field whose new value is the zero value
ServerUpdateRequest_OmitZero(old, new) ==
  LET tags == {"name"} \cup {JsonTag(f) : f \in {g \in OptionalFields :
                                 HasChange(old, new, g) /\ ~IsZero(new, g)}}
  IN [t \in tags |-> IF t = "name" THEN new.name ELSE Sent(new, AttrOfTag(t))]

\* the JSON object of a ServerUpdateRequest: the name and, of the optional
\* fields, those whose pointer was set, which omitempty keeps whatever the
\* value pointed to
ServerUpdateRequest(old, new) ==
  LET tags == {"name"} \cup {JsonTag(f) : f \in {g \in OptionalFields : HasChange(old, new, g)}}
  IN [t \in tags |-> IF t = "name" THEN new.name ELSE Sent(new, AttrOfTag(t))]

Put(key, body) == Req("PUT", key, body)

\* d.GetChange("name"): the request goes to the name the state holds
resourceProjectUpdate(dd, c, r) ==
  Answered("Failed to update project", Put(dd.attrs.name, [name |-> c.name]), dd,
           [dd EXCEPT !.id = c.name], r)

resourceSSHKeyUpdate(dd, c, r) ==
  Answered("Failed to update ssh key", Put(dd.id, [name |-> c.name]), dd, dd, r)

resourceNetworkUpdate(dd, c, r) ==
  Answered("Failed to update network", Put(dd.id, [name |-> c.name]), dd,
           [dd EXCEPT !.id = c.name], r)

\* an update that addresses its request to the new name
resourceRouterUpdate_KeyByNewName(dd, c, r) ==
  Answered("Failed to update router", Put(c.name, [name |-> c.name]), dd,
           [dd EXCEPT !.id = c.name], r)

resourceRouterUpdate(dd, c, r) ==
  Answered("Failed to update router", Put(dd.id, [name |-> c.name]), dd,
           [dd EXCEPT !.id = c.name], r)

resourceVolumeUpdate(dd, c, r) ==
  Answered("Failed to update volume", Put(dd.id, [project |-> "default"]), dd, dd, r)

resourceSecurityGroupUpdate(dd, c, r) ==
  Answered("Failed to update security group", Put(dd.id, [name |-> c.name]), dd,
           [dd EXCEPT !.id = c.name], r)

resourceLoadBalancerUpdate(dd, c, r) ==
  Answered("Failed to update load balancer", Put(dd.id, [name |-> c.name]), dd,
           [dd EXCEPT !.id = c.name], r)

\* an update that takes the new name for the ID as the other types do
resourceServerUpdate_Renames(dd, c, r) ==
  Answered("Failed to update server", Put(dd.id, ServerUpdateRequest(dd.attrs, c)), dd,
           [dd EXCEPT !.id = c.name], r)

\* lines 336-396: no SetId
resourceServerUpdate(dd, c, r) ==
  Answered("Failed to update server", Put(dd.id, ServerUpdateRequest(dd.attrs, c)), dd,
           dd, r)

(* delete *)
Gone(dd) == [dd EXCEPT !.id = ""]
Del(dd) == Req("DELETE", dd.id, NoJson)

resourceProjectDelete(dd, r) == Answered("Failed to delete project", Del(dd), dd, Gone(dd), r)
resourceSSHKeyDelete(dd, r) == Answered("Failed to delete SSH key", Del(dd), dd, Gone(dd), r)
resourceNetworkDelete(dd, r) == Answered("Failed to delete network", Del(dd), dd, Gone(dd), r)
resourceRouterDelete(dd, r) == Answered("Failed to delete router", Del(dd), dd, Gone(dd), r)

\* a delete that takes 404 for done
resourceVolumeDelete_GoneIsDeleted(dd, r) ==
  IF r.fail = "" /\ r.code = 404 THEN Ret(Del(dd), Gone(dd), NoDiags)
  ELSE Answered("Failed to delete volume", Del(dd), dd, Gone(dd), r)

resourceVolumeDelete(dd, r) == Answered("Failed to delete volume", Del(dd), dd, Gone(dd), r)
resourceSecurityGroupDelete(dd, r) ==
  Answered("Failed to delete security group", Del(dd), dd, Gone(dd), r)
resourceLoadBalancerDelete(dd, r) ==
  Answered("Failed to delete load balancer", Del(dd), dd, Gone(dd), r)
resourceServerDelete(dd, r) == Answered("Failed to delete server", Del(dd), dd, Gone(dd), r)

(* the handler of each type *)
CreateOf(k, dd, c, r) ==
  CASE k = "project" -> resourceProjectCreate(dd, c, r)
    [] k = "ssh_key" -> resourceSSHKeyCreate(dd, c, r)
    [] k = "network" -> resourceNetworkCreate(dd, c, r)
    [] k = "router" -> resourceRouterCreate(dd, c, r)
    [] k = "volume" -> resourceVolumeCreate(dd, c, r)
    [] k = "security_group" -> resourceSecurityGroupCreate(dd, c, r)
    [] OTHER -> resourceLoadBalancerCreate(dd, c, r)

ReadOf(k, dd, r) ==
  CASE k = "project" -> resourceProjectRead(dd, r)
    [] k = "server" -> resourceServerRead(dd, r)
    [] k = "ssh_key" -> resourceSSHKeyRead(dd, r)
    [] k = "network" -> resourceNetworkRead(dd, r)
    [] k = "router" -> resourceRouterRead(dd, r)
    [] k = "volume" -> resourceVolumeRead(dd, r)
    [] k = "security_group" -> resourceSecurityGroupRead(dd, r)
    [] OTHER -> resourceLoadBalancerRead(dd, r)

UpdateOf(k, dd, c, r) ==
  CASE k = "project" -> resourceProjectUpdate(dd, c, r)
    [] k = "server" -> resourceServerUpdate(dd, c, r)
    [] k = "ssh_key" -> resourceSSHKeyUpdate(dd, c, r)
    [] k = "network" -> resourceNetworkUpdate(dd, c, r)
    [] k = "router" -> resourceRouterUpdate(dd, c, r)
    [] k = "volume" -> resourceVolumeUpdate(dd, c, r)
    [] k = "security_group" -> resourceSecurityGroupUpdate(dd, c, r)
    [] OTHER -> resourceLoadBalancerUpdate(dd, c, r)

DeleteOf(k, dd, r) ==
  CASE k = "project" -> resourceProjectDelete(dd, r)
    [] k = "server" -> resourceServerDelete(dd, r)
    [] k = "ssh_key" -> resourceSSHKeyDelete(dd, r)
    [] k = "network" -> resourceNetworkDelete(dd, r)
    [] k = "router" -> resourceRouterDelete(dd, r)
    [] k = "volume" -> resourceVolumeDelete(dd, r)
    [] k = "security_group" -> resourceSecurityGroupDelete(dd, r)
    [] OTHER -> resourceLoadBalancerDelete(dd, r)

(* the operations *)
\* a resource of any of the eight types starts with the operation create,
\* on the defaults; the handlers of the load balancer are taken as they are
\* written, although Provider() does not register them
LifecycleInit ==
  /\ kind \in Kinds
  /\ pc = IF kind = "server" THEN "post" ELSE "new"
  /\ now = 0
  /\ ctxErr = ""
  /\ pollTimeout = FiveMinutes
  /\ deadline = 0
  /\ id = ""
  /\ status = ""
  /\ ip_addresses = <<>>
  /\ diags = NoDiags
  /\ resp = NoResp
  /\ fetches = 0
  /\ sleeps = 0
  /\ pendings = 0
  /\ startedAt = 0
  /\ cancelledInFlight = FALSE
  /\ fetchErrors = 0
  /\ fetchKey = ""
  /\ createdName = ""
  /\ createResp = NoResp
  /\ op = "create"
  /\ attrs = DefaultConfig
  /\ req = NoReq
  /\ cfg = DefaultConfig

\* the context, the clock readings, the counters and the responses of
\* resourceServerCreate belong to its invocation
loopVars == <<now, ctxErr, pollTimeout, deadline, fetches, sleeps, pendings, startedAt,
              cancelledInFlight, fetchErrors, fetchKey, createResp>>

\* resourceServerCreate has returned: what it leaves to the operations that
\* follow is the resource data and its diagnostics
CreateReturns ==
  /\ pc = "done"
  /\ pc' = "idle"
  /\ now' = 0
  /\ ctxErr' = ""
  /\ deadline' = 0
  /\ fetches' = 0
  /\ sleeps' = 0
  /\ pendings' = 0
  /\ startedAt' = 0
  /\ cancelledInFlight' = FALSE
  /\ fetchErrors' = 0
  /\ fetchKey' = ""
  /\ createResp' = NoResp
  /\ resp' = NoResp
  /\ UNCHANGED <<pollTimeout, id, status, ip_addresses, diags, createdName>>
  /\ UNCHANGED lifeVars

\* read, update and delete are invoked on a resource that has an ID, when no
\* other operation on it is running
Idle == pc = "idle" /\ id # ""

\* an operation other than resourceServerCreate was invoked and returned
Invoked ==
  /\ pc' = "idle"
  /\ UNCHANGED kind
  /\ UNCHANGED loopVars

\* the handler returned out on the answer r
Handled(out, r) ==
  /\ req' = out.req
  /\ resp' = r
  /\ diags' = out.diags
  /\ id' = out.d.id
  /\ status' = out.d.status
  /\ ip_addresses' = out.d.ip_addresses

\* create of a type other than the server
CreateResource ==
  /\ pc = "new"
  /\ \E r \in ObjectResponses :
       LET out == CreateOf(kind, ResourceData, attrs, r)
       IN /\ Handled(out, r)
          /\ createdName' = out.d.id
  /\ op' = "create"
  /\ Invoked
  /\ UNCHANGED <<attrs, cfg>>

ReadResource ==
  /\ Idle
  /\ \E r \in ReadResponses(kind) :
       LET out == ReadOf(kind, ResourceData, r)
       IN /\ Handled(out, r)
          /\ attrs' = out.d.attrs
  /\ op' = "read"
  /\ cfg' = attrs
  /\ Invoked
  /\ UNCHANGED createdName

\* update is invoked with a configuration that differs from the state; the
\* configuration becomes the state when the handler returns no error
UpdateResource ==
  /\ Idle
  /\ \E c \in Configs(kind) \ {attrs}, r \in ObjectResponses :
       LET out == UpdateOf(kind, ResourceData, c, r)
       IN /\ Handled(out, r)
          /\ attrs' = IF out.diags = NoDiags THEN c ELSE out.d.attrs
          /\ cfg' = c
  /\ op' = "update"
  /\ Invoked
  /\ UNCHANGED createdName

DeleteResource ==
  /\ Idle
  /\ \E r \in ObjectResponses :
       LET out == DeleteOf(kind, ResourceData, r)
       IN /\ Handled(out, r)
          /\ attrs' = out.d.attrs
  /\ op' = "delete"
  /\ cfg' = attrs
  /\ Invoked
  /\ UNCHANGED createdName

LifecycleNext ==
  \/ Cancel \/ CreateRequest \/ Sleep \/ CheckCtx \/ FetchReturn
  \/ CreateReturns
  \/ CreateResource \/ ReadResource \/ UpdateResource \/ DeleteResource

LifecycleSpec == LifecycleInit /\ [][LifecycleNext]_vars

(* ------------------------------ claims --------------------------------- *)
\* the iteration that returned fetched a decodable 200 response
FetchedOk == Returned /\ resp # NoResp /\ fetched.err = NoErr
\* the status request of the iteration that returned was answered with 404
Fetched404 == Returned /\ resp # NoResp /\ resp.fail = "" /\ resp.code = 404
\* the clock advanced during the sleeps only, by one interval each
ExactClock == now = startedAt + sleeps * pollInterval

\* C1: an iteration whose fetch reports "online" ends in success, with the
\* fetched addresses recorded, whatever the clock reads after the fetch; it
\* never ends in a timeout.
C1_ClassifyBeforeDeadline ==
  (FetchedOk /\ fetched.status = "online")
    => /\ IsSuccess
       /\ ~IsTimeout
       /\ status = "online"
       /\ ip_addresses = resp.body.ips.elems

C1_Witness == IsSuccess /\ fetches >= 1 /\ After(now, deadline)

\* C2 as stated: with a deadline of two intervals, an exact clock and only
\* pending statuses, the timeout comes after exactly 2 fetches.
C2_TimeoutAfterTwo ==
  (IsTimeout /\ pollTimeout = 2 * pollInterval /\ ExactClock) => fetches = 2

\* C2 amended: with a deadline of two intervals, an exact clock and only
\* pending statuses, the timeout comes after exactly 3 fetches.
C2_TimeoutAfterThree ==
  (IsTimeout /\ pollTimeout = 2 * pollInterval /\ ExactClock)
    => (fetches = 3 /\ pendings = 2)

C2_Witness == IsTimeout /\ pollTimeout = 2 * pollInterval /\ ExactClock

\* C3: every status request is preceded by its own sleep of one interval:
\* when a request is issued as many sleeps as requests have happened and at
\* least one interval per request has elapsed since the loop started.
C3_SleepBeforeEveryFetch ==
  /\ fetches <= sleeps
  /\ sleeps <= fetches + 1
  /\ pc = "check" => sleeps = fetches + 1
  /\ pc = "fetch" => (sleeps = fetches /\ now >= startedAt + fetches * pollInterval)

C3_Witness == pc = "fetch" /\ fetches = 2 /\ now = startedAt + 2 * pollInterval

\* C4: when the context is cancelled at the check of an iteration, the
\* operation returns the context's error without issuing the status request
\* of that iteration: the requests made are those of the earlier iterations.
C4_CancelBeforeFetch ==
  [][(pc = "check" /\ ctxErr # "")
       => (IsCancelled' /\ fetches' = fetches /\ fetches' = sleeps - 1)]_vars

C4_Witness == IsCancelled /\ fetches >= 1 /\ sleeps = fetches + 1

C5_WitnessAborted ==
  cancelledInFlight /\ IsFetchError /\ diags.cause = Err("context canceled", "")

\* C6: the iteration whose fetch reports "error" returns the provisioning
\* failure, and no status request follows it.
C6_ErrorIsTerminal ==
  [][/\ (status' = "error" \/ (FetchedOk' /\ fetched'.status = "error"))
          => (IsProvisionFailed' /\ FetchedOk' /\ fetched'.status = "error")
     /\ IsProvisionFailed => (fetches' = fetches /\ pc' = "done")]_vars

C6_Witness == IsProvisionFailed /\ fetches = 3 /\ status = "error"

\* C7: success comes with the fetch that reports "online" and not before:
\* after k pending fetches it is fetch number k + 1.
C7_PendingThenSuccess ==
  IsSuccess => /\ FetchedOk
               /\ fetched.status = "online"
               /\ fetches = pendings + 1

C7_Witness == IsSuccess /\ pendings = 2 /\ fetches = 3

\* C8: when the first fetch reports "online" with the addresses A, the
\* operation succeeds after that one fetch and ip_addresses is A.
C8_ImmediateSuccess ==
  (FetchedOk /\ pendings = 0 /\ resp.body.status = "online")
    => /\ IsSuccess
       /\ fetches = 1
       /\ ip_addresses = resp.body.ips.elems

C8_Witness ==
  /\ IsSuccess
  /\ fetches = 1
  /\ ip_addresses = <<"10.0.0.5", "10.0.0.6">>

\* C9: a status request answered with 404 ends the loop in that iteration
\* with the not-found error, and no other fetch failure yields that error.
C9_NotFoundShortCircuit ==
  /\ Fetched404 => IsNotFound
  /\ (IsFetchError /\ ~Fetched404) => ~IsNotFound

C9_Witness == IsNotFound /\ fetches = 1 /\ ~After(now, deadline) /\ pollTimeout = FiveMinutes

C9_WitnessOther == IsFetchError /\ ~IsNotFound /\ resp.code = 500

\* C10 as stated: when a status request of the loop is answered with 404,
\* the ID is empty when the create operation returns.
C10_IdClearedOnNotFound == Fetched404 => id = ""

\* C11: a fetched status other than exactly "online" and exactly "error" is
\* pending: the iteration neither succeeds nor reports a provisioning
\* failure; it goes on polling unless the deadline has passed.
C11_ExactMatchOnly ==
  [][(/\ pc = "fetch"
      /\ pc' # "fetch"
      /\ fetchErrors' = fetchErrors
      /\ status' \notin {"online", "error"})
       => (/\ ~IsSuccess'
           /\ ~IsProvisionFailed'
           /\ (pc' = "sleep" \/ IsTimeout'))]_vars

C11_Witness == pc = "sleep" /\ pendings = 3 /\ status = "online "

C11_WitnessCase == pc = "sleep" /\ pendings = 1 /\ status = "ERROR"

\* C12: a fetch that fails for another reason than not-found ends the loop
\* in its own iteration with the fetch failure; it is not tried again.
C12_NoInternalRetry ==
  (fetchErrors >= 1 /\ ~Fetched404)
    => /\ IsFetchError
       /\ ~IsNotFound
       /\ diags.cause = fetched.err
       /\ fetchErrors = 1
       /\ fetches = pendings + 1

C12_Witness ==
  /\ IsFetchError
  /\ resp.fail = "" /\ resp.code = 200 /\ ~resp.decodable
  /\ fetches = 2
  /\ ~After(now, deadline)

\* C13 as stated: a step of the loop that does not end it in success leaves
\* the attributes status and ip_addresses as they were.
C13_OnlySuccessWrites ==
  [][~IsSuccess' => (status' = status /\ ip_addresses' = ip_addresses)]_vars

\* C13 amended: the loop writes ip_addresses on success only; status is
\* written by every fetch that succeeds, with the status string it returned,
\* also when that status is pending or "error"; a failed fetch and the
\* cancellation write neither attribute.
C13_WritesOfTheLoop ==
  [][/\ ~IsSuccess' => ip_addresses' = ip_addresses
     /\ status' # status => (pc = "fetch" /\ fetchErrors' = fetchErrors)
     /\ FetchedOk' => status' = resp'.body.status
     /\ (fetchErrors' > fetchErrors \/ pc = "check") => status' = status]_vars

C13_Witness ==
  /\ IsTimeout
  /\ status = "provisioning"
  /\ resp.body.ips = Slice(<<"10.0.0.5">>)
  /\ ip_addresses = <<>>

\* C14 as stated: when the loop ends in a failure (status "error", deadline
\* exceeded, fetch failure or cancellation), the ID is empty when the create
\* operation returns its error.
C14_HandleDiscardedOnFailure ==
  (Returned /\ LoopStarted /\ diags # NoDiags) => id = ""

\* C15: a timeout is returned only by an iteration whose fetch succeeded
\* with a status that is neither "online" nor "error" and whose clock, read
\* after the fetch, is strictly later than the deadline.
C15_TimeoutOnlyWhenPendingPastDeadline ==
  IsTimeout => /\ FetchedOk
               /\ fetched.status \notin {"online", "error"}
               /\ status = fetched.status
               /\ now > deadline
               /\ deadline = startedAt + pollTimeout

C15_Witness ==
  IsTimeout /\ pollTimeout = FiveMinutes /\ now = deadline + 1 /\ fetches = 30

\* C16: once the loop is entered the create operation eventually returns,
\* with exactly one of the six outcomes, also when every fetch reports a
\* pending status.
C16_LoopTerminates ==
  /\ LoopStarted ~> Returned
  /\ []((Returned /\ LoopStarted) => OutcomeCount = 1)

C16_Witness ==
  IsTimeout /\ pollTimeout = FiveMinutes /\ fetches = 31 /\ pendings = 30

\* C17: the deadline is the clock at the start of the loop plus the timeout
\* and no step of the loop changes it.
C17_DeadlineComputedOnce ==
  /\ [](LoopStarted => deadline = startedAt + pollTimeout)
  /\ [][LoopStarted => (deadline' = deadline /\ pollTimeout' = pollTimeout)]_vars

C17_Witness ==
  /\ pc = "sleep"
  /\ pendings = 2
  /\ now = startedAt + 2 * pollInterval + 1
  /\ startedAt > 0
  /\ deadline = startedAt + pollTimeout

\* C18: every status request of the loop is keyed by the name the backend
\* returned in the create response, and the ID that holds it does not change
\* while the loop runs.
C18_HandleImmutable ==
  /\ []((LoopStarted /\ fetches >= 1) => fetchKey = createdName)
  /\ [](LoopStarted => id = createdName)
  /\ [][LoopStarted => (id' = id /\ createdName' = createdName)]_vars

C18_Witness == pc = "fetch" /\ fetches = 3 /\ fetchKey = "web-1" /\ fetchKey # name

C19_WitnessAborted == IsTransient /\ cancelledInFlight /\ resp.fail = "context canceled"

\* C20 as stated: each of the eight resource types (projects, servers,
\* networks, routers, volumes, security groups, load balancers, SSH keys) is
\* registered in the resource map of the provider with its four lifecycle
\* operations, whatever operation the provider is serving.
C20_AllTypesRegistered ==
  pc \in {"post", "sleep", "check", "fetch", "done"}
    => \A res \in {resourceProject, resourceServer, resourceNetwork, resourceRouter,
                   resourceVolume, resourceSecurityGroup, resourceLoadBalancer,
                   resourceSSHKey} :
         /\ RegisteredAs(res) # {}
         /\ HasAllFour(res)

\* the create request was answered with 200 and a decodable, non-empty list
CreateAccepted ==
  /\ createResp.fail = ""
  /\ createResp.code = 200
  /\ createResp.decodable
  /\ Len(createResp.body.names) >= 1

\* C21: the loop issues at most pollTimeout / pollInterval (rounded down)
\* plus one status requests, and it goes on to another iteration only when
\* the clock read after the fetch is not later than the deadline.
C21_FetchesBoundedByDeadline ==
  /\ fetches <= pollTimeout \div pollInterval + 1
  /\ (pc = "sleep" /\ fetches >= 1) => ~(now > deadline)

C21_Witness ==
  /\ IsTimeout
  /\ pollTimeout = 3
  /\ fetches = pollTimeout \div pollInterval + 1
  /\ now > deadline

\* C22: the ID is set and the loop entered only if the create request was
\* answered with 200 and a decodable, non-empty list; after a transport
\* failure, another status code, an undecodable body or an empty list the
\* operation has returned an error, the ID is empty and neither a sleep
\* nor a status request has happened.
C22_NoPollingWithoutHandle ==
  /\ (id # "" \/ sleeps >= 1 \/ fetches >= 1 \/ LoopStarted)
       => (CreateAccepted /\ id = createResp.body.names[1])
  /\ (pc # "post" /\ ~CreateAccepted)
       => /\ Returned
          /\ diags = CreateFailure(createResp)
          /\ diags # NoDiags
          /\ id = ""
          /\ sleeps = 0
          /\ fetches = 0

C22_Witness ==
  /\ Returned
  /\ createResp.code = 200 /\ createResp.decodable
  /\ Len(createResp.body.names) = 0
  /\ diags.summary = "No server returned in create response"
  /\ id = ""

\* the answer was 200 / 404
Is200(r) == r.fail = "" /\ r.code = 200
Is404(r) == r.fail = "" /\ r.code = 404
\* the step is the invocation of the operation o
Invokes(o) == pc = "idle" /\ op' = o

\* C23: the read of every resource type clears the ID and returns no error
\* when the backend answers 404; when the request fails or the answer is
\* another status code than 200 and 404 it returns an error and the ID is
\* what it was.
C23_ReadGoneOrError ==
  [][Invokes("read")
       => /\ req'.method = "GET"
          /\ Is404(resp') => (id' = "" /\ diags' = NoDiags)
          /\ (resp'.fail # "" \/ resp'.code \notin {200, 404})
               => (id' = id /\ diags' # NoDiags)]_vars

C23_Witness ==
  /\ op = "read" /\ kind = "volume"
  /\ Is404(resp)
  /\ id = ""
  /\ diags = NoDiags

C23_WitnessError ==
  /\ op = "read" /\ kind = "server"
  /\ resp.code = 500
  /\ id = createdName /\ id # ""
  /\ diags.summary = "Error reading server"

\* C24: the delete of every resource type clears the ID exactly when the
\* backend answered 200; after a transport failure or another status code,
\* 404 included, it returns an error and the ID is what it was.
C24_DeleteClearsOn200Only ==
  [][Invokes("delete")
       => /\ req'.method = "DELETE"
          /\ Is200(resp') => (id' = "" /\ diags' = NoDiags)
          /\ ~Is200(resp') => (id' = id /\ diags' # NoDiags)
          /\ id' = "" <=> Is200(resp')]_vars

C24_Witness ==
  /\ op = "delete" /\ kind = "ssh_key"
  /\ Is404(resp)
  /\ id # ""
  /\ diags.summary = "Failed to delete SSH key"

\* the types whose update takes the configured name for the ID
Renaming == {"project", "network", "router", "security_group", "loadbalancer"}

C26_ServerKeyIsCreatedName ==
  /\ []((kind = "server" /\ id # "") => id = createdName)
  /\ [][(kind = "server" /\ pc = "idle" /\ op' \in {"read", "update", "delete"})
          => /\ req'.key = id
             /\ req'.key = createdName
             /\ (op' = "update" /\ req'.body.name # id) => id' = id]_vars

C26_Witness ==
  /\ kind = "server" /\ op = "read"
  /\ attrs.name = "api"
  /\ req.key = "web-1"
  /\ id = "web-1"
  /\ createdName = "web-1"
  /\ diags = NoDiags

\* C27: the body of a server update carries the name, and an optional field
\* exactly when the value of its attribute in the configuration differs
\* from the one in the state, with the value of the configuration.
C27_ChangedFieldsOnly ==
  [][(kind = "server" /\ Invokes("update"))
       => /\ "name" \in DOMAIN req'.body
          /\ req'.body["name"] = cfg'.name
          /\ DOMAIN req'.body \subseteq {"name"} \cup {JsonTag(f) : f \in OptionalFields}
          /\ \A f \in OptionalFields :
               /\ (JsonTag(f) \in DOMAIN req'.body) <=> (attrs[f] # cfg'[f])
               /\ (JsonTag(f) \in DOMAIN req'.body)
                    => req'.body[JsonTag(f)] = Sent(cfg', f)]_vars

C27_Witness ==
  /\ kind = "server" /\ op = "update"
  /\ DOMAIN req.body = {"name", "flavor", "request_floating_ip", "volumes"}
  /\ req.body["request_floating_ip"] = FALSE
  /\ req.body["volumes"] = NilSlice
  /\ req.body["flavor"] = "copper"

\* C28: a read of a server whose status request is answered with a
\* decodable 200 writes status, ip_addresses and request_floating_ip from
\* that answer; one whose status request fails otherwise than with 404
\* returns an error and leaves the ID and the three attributes; one answered
\* with 404 clears the ID and leaves the three attributes.
C28_ReadAllOrNothing ==
  [][(kind = "server" /\ Invokes("read"))
       => /\ (Is200(resp') /\ resp'.decodable)
               => /\ status' = resp'.body.status
                  /\ ip_addresses' = resp'.body.ips.elems
                  /\ attrs'.request_floating_ip = resp'.body.rf
                  /\ id' = id
                  /\ diags' = NoDiags
          /\ (~(Is200(resp') /\ resp'.decodable) /\ ~Is404(resp'))
               => /\ diags'.summary = "Error reading server"
                  /\ id' = id
                  /\ status' = status
                  /\ ip_addresses' = ip_addresses
                  /\ attrs' = attrs
          /\ Is404(resp')
               => /\ id' = ""
                  /\ diags' = NoDiags
                  /\ status' = status
                  /\ ip_addresses' = ip_addresses
                  /\ attrs' = attrs]_vars

C28_Witness ==
  /\ kind = "server" /\ op = "read"
  /\ Is200(resp) /\ ~resp.decodable
  /\ diags.summary = "Error reading server"
  /\ status = "online"
  /\ ip_addresses = <<"10.0.0.5", "10.0.0.6">>
  /\ attrs.request_floating_ip
  /\ id # ""

C28_WitnessGone ==
  /\ kind = "server" /\ op = "read"
  /\ Is404(resp)
  /\ id = ""
  /\ status = "online"
  /\ ip_addresses = <<"10.0.0.5">>
====
